---- MODULE Spec2Model ----
(***************************************************************************)
(* Model of golem's Texture (src/src/texture.rs): the recorded dimensions, *)
(* the validation done by set_image and set_subimage, the texture-unit     *)
(* bindings made through the glow context, and the release of the GL       *)
(* texture on drop.                                                        *)
(*                                                                         *)
(* u32 values are pairs <<hi, lo>> of 16-bit limbs, so that values up to   *)
(* 2^32 - 1 and the wrap-around of +, - and * can be computed exactly.     *)
(***************************************************************************)
EXTENDS Integers, Sequences, FiniteSets, TLC

\* ------------------------------------------------------------------ bounds
\* Number of Texture values of the multi-texture specification SpecGL.
NumTextures == 2
\* Number of texture units the GL context has (units 0 .. MaxUnits - 1).
MaxUnits == 3

\* ------------------------------------------------- constants of glow (GL)
\* glow::TEXTURE0 = 0x84C0
TEXTURE0 == 33984
\* glow::MAX_TEXTURE_SIZE = 0x0D33
MAX_TEXTURE_SIZE == 3379

\* ------------------------------------------------------------ u32 values
Limb == 2 ^ 16

U32(n) == <<n \div Limb, n % Limb>>

ZERO == <<0, 0>>

U32_MAX == <<Limb - 1, Limb - 1>>

LtU32(a, b) == a[1] < b[1] \/ (a[1] = b[1] /\ a[2] < b[2])

LeU32(a, b) == a = b \/ LtU32(a, b)

\* a + b on u32: v is the wrapped sum, o tells whether it overflowed.
overflowing_add(a, b) ==
    LET lo == a[2] + b[2]
        hi == a[1] + b[1] + (lo \div Limb)
    IN  [v |-> <<hi % Limb, lo % Limb>>, o |-> hi >= Limb]

\* a - b on u32: v is the wrapped difference, o tells whether it underflowed.
overflowing_sub(a, b) ==
    LET lo == a[2] - b[2]
        br == IF lo < 0 THEN 1 ELSE 0
        hi == a[1] - b[1] - br
    IN  [v |-> <<(hi + Limb) % Limb, (lo + Limb) % Limb>>, o |-> hi < 0]

HalfU32(b) == <<b[1] \div 2, (b[2] \div 2) + (b[1] % 2) * (Limb \div 2)>>

\* a * b on u32 by double-and-add: v is the wrapped product, o tells whether
\* the exact product exceeds 2^32 - 1.
RECURSIVE overflowing_mul(_, _)
overflowing_mul(a, b) ==
    IF b = ZERO
    THEN [v |-> ZERO, o |-> FALSE]
    ELSE LET h == overflowing_mul(a, HalfU32(b))
             d == overflowing_add(h.v, h.v)
             s == IF b[2] % 2 = 1
                  THEN overflowing_add(d.v, a)
                  ELSE [v |-> d.v, o |-> FALSE]
         IN  [v |-> s.v, o |-> h.o \/ d.o \/ s.o]

RECURSIVE BitAndNat(_, _)
BitAndNat(m, n) ==
    IF m = 0 \/ n = 0
    THEN 0
    ELSE (m % 2) * (n % 2) + 2 * BitAndNat(m \div 2, n \div 2)

\* a & b on u32
BitAndU32(a, b) == <<BitAndNat(a[1], b[1]), BitAndNat(a[2], b[2])>>

\* ------------------------------------------------------------------- state
VARIABLES
    overflow_checks,  \* TRUE: +, -, * panic on overflow (debug profile);
                      \* FALSE: they wrap (release profile)
    tex,              \* the Texture values: st, id, width, height
    gl,               \* the glow context: selected unit, unit bindings, textures
    deletes,          \* per Texture value: delete_texture calls made by its drop
    last              \* the last call made, its arguments and its outcome

vars == <<overflow_checks, tex, gl, deletes, last>>

Slots == 1 .. NumTextures

\* GL texture names; 0 is "no texture" (None).
Names == 1 .. NumTextures

Units == 0 .. (MaxUnits - 1)

\* pub struct Texture { ctx, id, width, height }; st tells whether the value
\* exists ("none": not created yet, "live", "dropped").
NoTexture == [st |-> "none", id |-> 0, width |-> ZERO, height |-> ZERO]

NONE == [some |-> FALSE, len |-> ZERO]

Some(n) == [some |-> TRUE, len |-> n]

NoArgs ==
    [data |-> NONE, x |-> ZERO, y |-> ZERO, width |-> ZERO, height |-> ZERO,
     color |-> "-", bind_point |-> ZERO, param |-> "-", value |-> "-"]

\* outcome: "ok", "panic" (an assertion or an overflow check failed) or "err"
\* (Texture::new returned Err). upload: tex_image_2d / tex_sub_image_2d was
\* called.
Call(op, t, outcome, upload, args) ==
    [op |-> op, t |-> t, outcome |-> outcome, upload |-> upload, a |-> args]

\* ColorFormat::bytes_per_pixel
bytes_per_pixel(color) == IF color = "RGB" THEN U32(3) ELSE U32(4)

width(t) == tex[t].width

height(t) == tex[t].height

\* --------------------------------------------------------- the GL context
\* gl.create_texture(): name is the fresh name the driver hands out.
create_texture(g, name) == [g EXCEPT !.textures = @ \cup {name}]

\* gl.active_texture(e): selects unit e - TEXTURE0; an e that names no unit
\* is GL_INVALID_ENUM and leaves the selection as it was.
active_texture(g, e) ==
    IF LeU32(U32(TEXTURE0), e) /\ LtU32(e, U32(TEXTURE0 + MaxUnits))
    THEN [g EXCEPT !.active = e[2] - TEXTURE0]
    ELSE g

\* gl.bind_texture(TEXTURE_2D, name) binds on the selected unit; name 0 is None.
bind_texture(g, name) ==
    [g EXCEPT !.bound[g.active] = name,
              !.invalid = @ \/ (name # 0 /\ name \notin g.textures)]

\* gl.delete_texture(name): the name is released and reverts to 0 wherever bound.
delete_texture(g, name) ==
    [g EXCEPT !.textures = @ \ {name},
              !.bound = [u \in Units |-> IF g.bound[u] = name THEN 0 ELSE g.bound[u]],
              !.invalid = @ \/ name \notin g.textures]

\* fn set_texture_param: binds the texture and leaves it bound.
set_texture_param(g, id) == bind_texture(g, id)

\* The GL calls of set_image and of set_subimage: bind, upload, mipmaps, unbind.
upload_calls(g, id) == bind_texture(bind_texture(g, id), 0)

\* set_active binding before it selects the unit.
set_active_calls_bind_first(g, id, e) ==
    active_texture(active_texture(bind_texture(g, id), e), U32(TEXTURE0))

\* set_active without the final active_texture(TEXTURE0).
set_active_calls_no_restore(g, id, e) ==
    bind_texture(active_texture(g, e), id)

\* The GL calls of set_active.
set_active_calls(g, id, e) ==
    active_texture(bind_texture(active_texture(g, e), id), U32(TEXTURE0))

Init ==
    /\ overflow_checks \in BOOLEAN
    /\ tex = [t \in Slots |-> NoTexture]
    /\ gl = [active |-> 0, bound |-> [u \in Units |-> 0], textures |-> {},
             invalid |-> FALSE]
    /\ deletes = [t \in Slots |-> 0]
    /\ last = Call("init", 0, "ok", FALSE, NoArgs)

\* ------------------------------------------------------------- operations
\* Texture::new: create_texture()? then set_minification(Linear).
new(t) ==
    /\ tex[t].st = "none"
    /\ \/ \E id \in Names \ gl.textures :
            /\ tex' = [tex EXCEPT ![t] = [st |-> "live", id |-> id,
                                          width |-> ZERO, height |-> ZERO]]
            /\ gl' = set_texture_param(create_texture(gl, id), id)
            /\ last' = Call("new", t, "ok", FALSE, NoArgs)
       \/ /\ last' = Call("new", t, "err", FALSE, NoArgs)
          /\ UNCHANGED <<tex, gl>>
    /\ UNCHANGED <<overflow_checks, deletes>>

\* Texture::set_active
set_active(t, bind_point) ==
    LET e == overflowing_add(U32(TEXTURE0), bind_point)
        args == [NoArgs EXCEPT !.bind_point = bind_point]
    IN  /\ tex[t].st = "live"
        /\ IF e.o /\ overflow_checks
           THEN /\ last' = Call("set_active", t, "panic", FALSE, args)
                /\ UNCHANGED gl
           ELSE /\ last' = Call("set_active", t, "ok", FALSE, args)
                /\ gl' = set_active_calls(gl, tex[t].id, e.v)
        /\ UNCHANGED <<overflow_checks, tex, deletes>>

\* A set_image that takes the width for both dimensions.
assign_width_twice(t, w, h) == [tex EXCEPT ![t].width = w, ![t].height = w]

\* self.width = width; self.height = height;
assign_dims(t, w, h) == [tex EXCEPT ![t].width = w, ![t].height = h]

\* set_image without the power-of-two assertion on the width.
set_image_passes_no_pow2(data, w, h, color) ==
    /\ LtU32(ZERO, w)
    /\ LtU32(ZERO, h)
    /\ LtU32(w, U32(MAX_TEXTURE_SIZE))
    /\ LtU32(h, U32(MAX_TEXTURE_SIZE))
    /\ BitAndU32(h, overflowing_sub(h, U32(1)).v) = ZERO
    /\ data.some =>
         LET wh == overflowing_mul(w, h)
             n  == overflowing_mul(wh.v, bytes_per_pixel(color))
         IN  /\ ~ (overflow_checks /\ (wh.o \/ n.o))
             /\ LeU32(n.v, data.len)

\* set_image without the maximum-size assertions.
set_image_passes_no_max(data, w, h, color) ==
    /\ LtU32(ZERO, w)
    /\ LtU32(ZERO, h)
    /\ BitAndU32(w, overflowing_sub(w, U32(1)).v) = ZERO
    /\ BitAndU32(h, overflowing_sub(h, U32(1)).v) = ZERO
    /\ data.some =>
         LET wh == overflowing_mul(w, h)
             n  == overflowing_mul(wh.v, bytes_per_pixel(color))
         IN  /\ ~ (overflow_checks /\ (wh.o \/ n.o))
             /\ LeU32(n.v, data.len)

\* set_image asserting data.len() > ... instead of >= ...
set_image_passes_strict_len(data, w, h, color) ==
    /\ LtU32(ZERO, w)
    /\ LtU32(ZERO, h)
    /\ LtU32(w, U32(MAX_TEXTURE_SIZE))
    /\ LtU32(h, U32(MAX_TEXTURE_SIZE))
    /\ BitAndU32(w, overflowing_sub(w, U32(1)).v) = ZERO
    /\ BitAndU32(h, overflowing_sub(h, U32(1)).v) = ZERO
    /\ data.some =>
         LET wh == overflowing_mul(w, h)
             n  == overflowing_mul(wh.v, bytes_per_pixel(color))
         IN  /\ ~ (overflow_checks /\ (wh.o \/ n.o))
             /\ LtU32(n.v, data.len)

\* The assertions of set_image, in their order; an overflow of
\* width * height * bytes_per_pixel panics when overflow checks are on.
set_image_passes(data, w, h, color) ==
    /\ LtU32(ZERO, w)
    /\ LtU32(ZERO, h)
    /\ LtU32(w, U32(MAX_TEXTURE_SIZE))
    /\ LtU32(h, U32(MAX_TEXTURE_SIZE))
    /\ BitAndU32(w, overflowing_sub(w, U32(1)).v) = ZERO
    /\ BitAndU32(h, overflowing_sub(h, U32(1)).v) = ZERO
    /\ data.some =>
         LET wh == overflowing_mul(w, h)
             n  == overflowing_mul(wh.v, bytes_per_pixel(color))
         IN  /\ ~ (overflow_checks /\ (wh.o \/ n.o))
             /\ LeU32(n.v, data.len)

\* Texture::set_image
set_image(t, data, w, h, color) ==
    LET args == [NoArgs EXCEPT !.data = data, !.width = w, !.height = h,
                               !.color = color]
    IN  /\ tex[t].st = "live"
        /\ IF set_image_passes(data, w, h, color)
           THEN /\ tex' = assign_dims(t, w, h)
                /\ gl' = upload_calls(gl, tex[t].id)
                /\ last' = Call("set_image", t, "ok", TRUE, args)
           ELSE /\ last' = Call("set_image", t, "panic", FALSE, args)
                /\ UNCHANGED <<tex, gl>>
        /\ UNCHANGED <<overflow_checks, deletes>>

\* The assertions of set_subimage and the arithmetic they and
\* required_data_len do, in their order.
set_subimage_passes(t, len, x, y, w, h, color) ==
    LET xw == overflowing_add(x, w)
        yh == overflowing_add(y, h)
        dw == overflowing_sub(w, x)
        dh == overflowing_sub(h, y)
        m  == overflowing_mul(dw.v, dh.v)
        required_data_len == overflowing_mul(m.v, bytes_per_pixel(color))
    IN  /\ ~ (overflow_checks /\ xw.o)
        /\ LeU32(xw.v, tex[t].width)
        /\ ~ (overflow_checks /\ yh.o)
        /\ LeU32(yh.v, tex[t].height)
        /\ ~ (overflow_checks /\ (dw.o \/ dh.o \/ m.o \/ required_data_len.o))
        /\ LeU32(required_data_len.v, len)

\* Texture::set_subimage
set_subimage(t, len, x, y, w, h, color) ==
    LET args == [NoArgs EXCEPT !.data = Some(len), !.x = x, !.y = y,
                               !.width = w, !.height = h, !.color = color]
    IN  /\ tex[t].st = "live"
        /\ IF set_subimage_passes(t, len, x, y, w, h, color)
           THEN /\ gl' = upload_calls(gl, tex[t].id)
                /\ last' = Call("set_subimage", t, "ok", TRUE, args)
           ELSE /\ last' = Call("set_subimage", t, "panic", FALSE, args)
                /\ UNCHANGED gl
        /\ UNCHANGED <<overflow_checks, tex, deletes>>

\* TextureFilter::to_gl
filter_to_gl(f) == IF f = "Linear" THEN "LINEAR" ELSE "NEAREST"

\* TextureWrap::to_gl
wrap_to_gl(w) ==
    CASE w = "Repeat" -> "REPEAT"
      [] w = "ClampToEdge" -> "CLAMP_TO_EDGE"
      [] OTHER -> "MIRRORED_REPEAT"

\* set_minification, set_magnification, set_wrap_h, set_wrap_v all go through
\* set_texture_param(param, value).
setter(op, t, param, value) ==
    /\ tex[t].st = "live"
    /\ gl' = set_texture_param(gl, tex[t].id)
    /\ last' = Call(op, t, "ok", FALSE,
                    [NoArgs EXCEPT !.param = param, !.value = value])
    /\ UNCHANGED <<overflow_checks, tex, deletes>>

set_minification(t, min) ==
    setter("set_minification", t, "TEXTURE_MIN_FILTER", filter_to_gl(min))

set_magnification(t, max) ==
    setter("set_magnification", t, "TEXTURE_MAG_FILTER", filter_to_gl(max))

set_wrap_h(t, wrap) == setter("set_wrap_h", t, "TEXTURE_WRAP_S", wrap_to_gl(wrap))

set_wrap_v(t, wrap) == setter("set_wrap_v", t, "TEXTURE_WRAP_T", wrap_to_gl(wrap))

\* A drop that does not call delete_texture.
drop_without_delete(t) ==
    /\ tex[t].st = "live"
    /\ tex' = [tex EXCEPT ![t] = [NoTexture EXCEPT !.st = "dropped"]]
    /\ last' = Call("drop", t, "ok", FALSE, NoArgs)
    /\ UNCHANGED <<overflow_checks, gl, deletes>>

\* impl Drop for Texture: runs once, when the value goes out of scope.
drop(t) ==
    /\ tex[t].st = "live"
    /\ gl' = delete_texture(gl, tex[t].id)
    /\ deletes' = [deletes EXCEPT ![t] = @ + 1]
    /\ tex' = [tex EXCEPT ![t] = [NoTexture EXCEPT !.st = "dropped"]]
    /\ last' = Call("drop", t, "ok", FALSE, NoArgs)
    /\ UNCHANGED overflow_checks

\* ------------------------------------------------------------------ inputs
WidthInputs == {U32(0), U32(1), U32(3), U32(4), U32(4096)}

HeightInputs == {U32(0), U32(2), U32(3), U32(4096)}

LenInputs == {U32(7), U32(8), U32(32)}

DataInputs == {NONE} \cup {Some(n) : n \in LenInputs}

OffsetInputs == {U32(0), U32(1), U32(2), U32_MAX}

ExtentInputs == {U32(1), U32(2)}

Colors == {"RGB", "RGBA"}

Filters == {"Linear", "Nearest"}

Wraps == {"Repeat", "ClampToEdge", "MirroredRepeat"}

\* bind points are NonZeroU32; MaxUnits and 2^32 - 1 name no texture unit
BindPoints == {U32(n) : n \in 1 .. MaxUnits} \cup {U32_MAX}

\* One Texture, its operations with every combination of the inputs above.
Next ==
    \/ new(1)
    \/ \E b \in {U32(1), U32_MAX} : set_active(1, b)
    \/ \E d \in DataInputs, w \in WidthInputs, h \in HeightInputs, c \in Colors :
          set_image(1, d, w, h, c)
    \/ \E n \in LenInputs, x \in OffsetInputs, y \in {U32(0), U32(1)},
          w \in ExtentInputs, h \in ExtentInputs, c \in Colors :
          set_subimage(1, n, x, y, w, h, c)
    \/ \E f \in Filters : set_minification(1, f)
    \/ \E f \in Filters : set_magnification(1, f)
    \/ \E w \in Wraps : set_wrap_h(1, w)
    \/ \E w \in Wraps : set_wrap_v(1, w)
    \/ drop(1)

Spec == Init /\ [][Next]_vars

\* Several Textures on one context, every bind point, a few image inputs.
NextGL ==
    \/ \E t \in Slots : new(t)
    \/ \E t \in Slots, b \in BindPoints : set_active(t, b)
    \/ \E t \in Slots, w \in {U32(2), U32(3)} :
          set_image(t, NONE, w, U32(2), "RGBA")
    \/ \E t \in Slots, x \in {U32(0), U32(2)} :
          set_subimage(t, U32(16), x, U32(0), U32(2), U32(2), "RGBA")
    \/ \E t \in Slots : set_minification(t, "Nearest")
    \/ \E t \in Slots : set_magnification(t, "Linear")
    \/ \E t \in Slots : set_wrap_h(t, "Repeat")
    \/ \E t \in Slots : set_wrap_v(t, "ClampToEdge")
    \/ \E t \in Slots : drop(t)

SpecGL == Init /\ [][NextGL]_vars

\* ------------------------------------------------------------------ claims
\* 2^k as a u32, k in 0 .. 31
Pow2U32(k) == IF k < 16 THEN <<0, 2 ^ k>> ELSE <<2 ^ (k - 16), 0>>

IsPowerOfTwo(n) == \E k \in 0 .. 31 : n = Pow2U32(k)

\* a positive power of two bounded by the maximum texture size
ValidDim(n) == IsPowerOfTwo(n) /\ LeU32(n, U32(MAX_TEXTURE_SIZE))

\* 0, or no power of two, or above the maximum texture size
InvalidDim(n) ==
    n = ZERO \/ ~ IsPowerOfTwo(n) \/ LtU32(U32(MAX_TEXTURE_SIZE), n)

\* The exact value of a u32 below 2^31.
Val(n) == n[1] * Limb + n[2]

\* 3 bytes per RGB pixel, 4 per RGBA pixel
PixelBytes(color) == IF color = "RGB" THEN 3 ELSE 4

\* x + w <= tw and y + h <= th, in exact arithmetic
RectFits(a, tw, th) ==
    LET xw == overflowing_add(a.x, a.width)
        yh == overflowing_add(a.y, a.height)
    IN  /\ ~ xw.o /\ LeU32(xw.v, tw)
        /\ ~ yh.o /\ LeU32(yh.v, th)

\* data holds at least width * height * bytes-per-pixel bytes, in exact arithmetic
RectCovered(a) ==
    LET wh == overflowing_mul(a.width, a.height)
        n  == overflowing_mul(wh.v, U32(PixelBytes(a.color)))
    IN  ~ wh.o /\ ~ n.o /\ LeU32(n.v, a.data.len)

\* C1: in every reachable state, after any calls (failed ones included), a
\* Texture's width and height are both 0 or both positive powers of two
\* bounded by the maximum texture size.
C1_DimensionsInvariant ==
    \A t \in Slots :
        tex[t].st = "live" =>
            \/ width(t) = ZERO /\ height(t) = ZERO
            \/ ValidDim(width(t)) /\ ValidDim(height(t))

\* A texture of 4 x 2 right after a set_image call that failed.
C1_Witness ==
    /\ last.op = "set_image" /\ last.outcome = "panic"
    /\ width(1) = U32(4) /\ height(1) = U32(2)

\* C2: a set_image whose width or height is 0, no power of two or above the
\* maximum fails, and leaves the recorded width and height as they were.
C2_InvalidDimensionsRejected ==
    [][(last'.op = "set_image"
            /\ (InvalidDim(last'.a.width) \/ InvalidDim(last'.a.height)))
        => (last'.outcome = "panic" /\ tex' = tex)]_vars

\* A 4 x 2 texture after set_image was refused a width of 4096.
C2_Witness ==
    /\ last.op = "set_image" /\ last.outcome = "panic"
    /\ last.a.width = U32(4096) /\ last.a.height = U32(2)
    /\ width(1) = U32(4) /\ height(1) = U32(2)

\* C3: right after a set_image(data, w, h, fmt) that succeeded, width() = w
\* and height() = h, whatever the data and the dimensions before.
C3_DimensionsRecorded ==
    (last.op = "set_image" /\ last.outcome = "ok")
        => (width(last.t) = last.a.width /\ height(last.t) = last.a.height)

\* A set_image with data that succeeded and recorded 4 x 2.
C3_Witness ==
    /\ last.op = "set_image" /\ last.outcome = "ok" /\ last.a.data.some
    /\ width(1) = U32(4) /\ height(1) = U32(2)

\* C4: with valid w and h, set_image fails and leaves the dimensions alone
\* when data is Some and shorter than w * h * bytes-per-pixel (3 for RGB, 4
\* for RGBA); it succeeds when data is at least that long or is None.
C4_DataLengthChecked ==
    [][(last'.op = "set_image"
            /\ ~ InvalidDim(last'.a.width) /\ ~ InvalidDim(last'.a.height))
        => IF /\ last'.a.data.some
              /\ Val(last'.a.data.len)
                   < Val(last'.a.width) * Val(last'.a.height)
                       * PixelBytes(last'.a.color)
           THEN last'.outcome = "panic" /\ tex' = tex
           ELSE last'.outcome = "ok"]_vars

\* A set_image of 4 x 2 RGB (24 bytes) refused for a data of 8 bytes.
C4_Witness ==
    /\ last.op = "set_image" /\ last.outcome = "panic"
    /\ last.a.width = U32(4) /\ last.a.height = U32(2)
    /\ last.a.color = "RGB" /\ last.a.data = Some(U32(8))

\* C5: once set_image has succeeded, a set_subimage whose rectangle lies
\* within the texture and whose data covers width * height * bytes-per-pixel
\* succeeds, for every offset.
C5_SubimageInBoundsSucceeds ==
    (/\ last.op = "set_subimage"
     /\ width(last.t) # ZERO
     /\ RectFits(last.a, width(last.t), height(last.t))
     /\ RectCovered(last.a))
        => last.outcome = "ok"

\* C6: a set_subimage whose rectangle does not fit the current width and
\* height fails and uploads nothing, for all u32 arguments.
C6_SubimageOutOfBoundsRejected ==
    (/\ last.op = "set_subimage"
     /\ ~ RectFits(last.a, width(last.t), height(last.t)))
        => (last.outcome = "panic" /\ ~ last.upload)

\* C7: a set_subimage within bounds whose data is shorter than
\* width * height * bytes-per-pixel fails and uploads nothing.
C7_SubimageShortDataRejected ==
    (/\ last.op = "set_subimage"
     /\ RectFits(last.a, width(last.t), height(last.t))
     /\ ~ RectCovered(last.a))
        => (last.outcome = "panic" /\ ~ last.upload)

\* C8: a Texture's GL texture is released exactly once, by its drop: never
\* before, never twice, and no call names a texture that was released; the
\* context holds exactly the textures of the live Texture values.
C8_ReleasedExactlyOnce ==
    /\ \A t \in Slots :
          deletes[t] = (IF tex[t].st = "dropped" THEN 1 ELSE 0)
    /\ ~ gl.invalid
    /\ gl.textures = {tex[t].id : t \in {s \in Slots : tex[s].st = "live"}}
    /\ \A t, u \in Slots :
          (tex[t].st = "live" /\ tex[u].st = "live" /\ t # u)
              => tex[t].id # tex[u].id

\* Two Textures were created and dropped, and the context holds no texture
\* any more.
C8_Witness ==
    /\ tex[1].st = "dropped" /\ tex[2].st = "dropped"
    /\ deletes[1] = 1 /\ deletes[2] = 1
    /\ gl.textures = {}

\* What C9 says of a step that is a set_active call: the unit bind_point
\* holds this texture, unit 0 is selected, every other unit is as before.
SetActiveBindsOnly(g, h, c) ==
    /\ c.outcome = "ok"
    /\ c.a.bind_point[1] = 0 /\ c.a.bind_point[2] \in Units
    /\ h.bound[c.a.bind_point[2]] = tex[c.t].id
    /\ h.active = 0
    /\ \A u \in Units \ {c.a.bind_point[2]} : h.bound[u] = g.bound[u]

\* C9 as stated: for every bind_point >= 1.
C9_SetActiveAnyBindPoint ==
    [][last'.op = "set_active" => SetActiveBindsOnly(gl, gl', last')]_vars

\* C9 amended: for every bind_point from 1 to the number of texture units
\* less one.
C9_SetActiveExistingUnit ==
    [][(last'.op = "set_active"
            /\ LtU32(last'.a.bind_point, U32(MaxUnits)))
        => SetActiveBindsOnly(gl, gl', last')]_vars

\* Two Textures bound to units 1 and 2, the last call a set_active.
C9_Witness ==
    /\ last.op = "set_active" /\ last.outcome = "ok"
    /\ tex[1].st = "live" /\ tex[2].st = "live"
    /\ gl.bound[1] = tex[1].id /\ gl.bound[2] = tex[2].id
    /\ gl.active = 0

\* C10: unit 0 stays the selected unit, and new, set_image, set_subimage,
\* the filter and wrap setters and set_active(m) leave the binding of every
\* unit n >= 1 as it was, except set_active(n) for unit n.
C10_OnlyUnitZeroTouched ==
    [][/\ gl.active = 0
       /\ gl'.active = 0
       /\ last'.op # "drop" =>
            \A n \in Units \ {0} :
                gl'.bound[n] # gl.bound[n]
                    => (last'.op = "set_active" /\ last'.a.bind_point = U32(n))]_vars

\* Texture 1 is bound to unit 1 and an image was just uploaded to Texture 2.
C10_Witness ==
    /\ last.op = "set_image" /\ last.outcome = "ok" /\ last.t = 2
    /\ tex[1].st = "live" /\ gl.bound[1] = tex[1].id
    /\ gl.bound[0] = 0

====
